---- MODULE Spec2Model ----
(***************************************************************************)
(* Session lifecycle and presence tracking of the meditation timer.        *)
(*                                                                         *)
(* Two variants of the GlobalCounter component live in the repository:     *)
(*   Spec    components/GlobalCounter.tsx with App.tsx: a leftover         *)
(*           checkpoint is an orphan that is discarded or confirmed;       *)
(*   SpecBg  unnamed/part_011 with unnamed/part_002: a leftover checkpoint *)
(*           is continued or recovered depending on page visibility.       *)
(* Three further specifications isolate parts of the program:              *)
(*   SpecStore  the checkpoint slot of StorageManager (save, read, clear); *)
(*   SpecDb     the users table behind the rank, count and total queries;  *)
(*   SpecLive   the heartbeat of components/GlobalCounter.tsx on a page    *)
(*              left open, with a backend that goes down and comes back.   *)
(* Times are milliseconds as returned by Date.now().  Every await of an    *)
(* async handler is a separate step: a handler in flight is an element of  *)
(* inflight, and the ...Done steps resume it with a success or a failure.  *)
(***************************************************************************)
EXTENDS Integers, Sequences, FiniteSets, TLC

VARIABLES
    now,                  \* Date.now()
    events,               \* number of events (timer, user, page, clock) so far
    mounted,              \* "closed" | "reconciled" | "running"
    checkpoint,           \* localStorage om-session-checkpoint: <<>> or <<record>>
    pending,              \* localStorage om-pending-orphan-session: <<>> or <<record>>
    localStats,           \* localStorage om-local-stats
    sessionIdRef,         \* sessionIdRef.current
    sessionStartTimeRef,  \* sessionStartTimeRef.current
    lastHiddenAtRef,      \* lastHiddenAtRef.current (part_011)
    visibility,           \* document.visibilityState
    active,               \* useState active
    totalUnique,          \* useState totalUnique
    appPending,           \* App.tsx useState pendingOrphanSession
    inflight,             \* async handlers suspended at an await
    user,                 \* backend record of the current user
    nextSid,              \* backend: next session id to assign
    users,                \* backend: the users table read by the rank and count queries
    backendUp,            \* the backend answers requests
    reply                 \* the reply to the last rank or count query

vars == <<now, events, mounted, checkpoint, pending, localStats, sessionIdRef,
          sessionStartTimeRef, lastHiddenAtRef, visibility, active, totalUnique,
          appPending, inflight, user, nextSid, users, backendUp, reply>>

\* The state of the backend that the component's handlers leave alone.
backendVars == <<users, backendUp, reply>>

----------------------------------------------------------------------------
(* Bounds of the model *)

MaxEvents == 5
MaxEventsBg == 4
MaxInflight == 3
MaxEventsDb == 3

(* Program constants *)

Null == 0
ONE_HOUR_IN_SECONDS == 60 * 60

\* A threshold of one minute.
SESSION_BACKGROUND_THRESHOLD_ONE_MINUTE == 60 * 1000

SESSION_BACKGROUND_THRESHOLD_MS == 2 * 60 * 1000
HEARTBEAT_MS == 10000
MS_PER_SECOND == 1000
ACTIVE_WINDOW_MS == 30000

Me == "me"

Max(a, b) == IF a >= b THEN a ELSE b

\* Math.floor((a - b) / 1000)
FloorSeconds(a, b) == (a - b) \div MS_PER_SECOND

\* Math.max(0, Math.floor((a - b) / 1000))
DurationSeconds(a, b) == Max(0, FloorSeconds(a, b))

----------------------------------------------------------------------------
(* Helpers *)

Remove(s, i) == SubSeq(s, 1, i - 1) \o SubSeq(s, i + 1, Len(s))

Last(s) == s[Len(s)]

\* Backend calls as the component issues them.
Call(op, sid, secs, at, sessions, lastSeen) ==
    [op |-> op, sid |-> sid, secs |-> secs, at |-> at, sessions |-> sessions,
     lastSeen |-> lastSeen]

HeartbeatCall == Call("heartbeat", Null, 0, Null, 0, TRUE)

StartSessionCall == Call("startSession", Null, 0, Null, 0, FALSE)

CountsCall == Call("counts", Null, 0, Null, 0, FALSE)

GetUserCall == Call("getUser", Null, 0, Null, 0, FALSE)

\* endSession(sessionId, durationSeconds, endedAt?)
EndSessionCall(sid, secs, at) == Call("endSession", sid, secs, at, 0, FALSE)

\* A stats increment that counts no session.
UpdateUserCallNoSession(secs, sessions, lastSeen) ==
    Call("updateUser", Null, secs, Null, 0, lastSeen)

\* updateUser(userId, {totalSecondsIncrement, sessionsCountIncrement, lastSeen})
UpdateUserCall(secs, sessions, lastSeen) ==
    Call("updateUser", Null, secs, Null, sessions, lastSeen)

\* An async handler suspended at the await of its latest call, with its local
\* constants and the backend calls it has issued so far.
Handler(h, sid, secs, at, call) ==
    [h |-> h, pc |-> call.op, sid |-> sid, secs |-> secs, at |-> at, log |-> <<call>>,
     userData |-> [totalSeconds |-> 0, sessionsCount |-> 0]]

\* The handler issues its next call and suspends at it.
Await(hd, call) == [hd EXCEPT !.pc = call.op, !.log = Append(@, call)]

\* The backend applies an updateUser call.
ApplyUpdate(u, call) ==
    [totalSeconds |-> u.totalSeconds + call.secs,
     sessionsCount |-> u.sessionsCount + call.sessions]

\* The reply variable before any rank or count query was answered.
NoReply ==
    [op |-> "none", rank |-> 0, activeCount |-> 0, totalCount |-> 0,
     totalSeconds |-> 0, sessionsCount |-> 0]

\* The clock of the page at which the previous run wrote its last checkpoint.
T0 == 2 * ONE_HOUR_IN_SECONDS * MS_PER_SECOND + 10 * HEARTBEAT_MS

\* The replies of the count query: <<activeCount, totalCount>>.
CountsReplies == {<<2, 2>>, <<2, 3>>}

\* Date.now() advances between events by one of these amounts.
Deltas == {ONE_HOUR_IN_SECONDS * MS_PER_SECOND - 1, ONE_HOUR_IN_SECONDS * MS_PER_SECOND}

\* lastCheckpoint - startedAt of a checkpoint left by a previous run
\* (negative after a clock adjustment).
LeftoverSpansMs == {-5000, 0, 3599999, 3600000}

\* A checkpoint as components/GlobalCounter.tsx writes it.
Checkpoint(sid, uid, st, t) ==
    [sessionId |-> sid, userId |-> uid, startedAt |-> st, lastCheckpoint |-> t,
     elapsedSeconds |-> FloorSeconds(t, st)]

LeftoverCheckpoints ==
    { Checkpoint(1, Me, (T0 - HEARTBEAT_MS) - span, T0 - HEARTBEAT_MS) :
        span \in LeftoverSpansMs }

----------------------------------------------------------------------------
(* StorageManager *)

\* The fields of a SessionCheckpoint in the order they are written.
CheckpointKeys ==
    <<"sessionId", "userId", "startedAt", "lastCheckpoint", "elapsedSeconds",
      "wasPageVisible", "lastHiddenAt">>

\* A text that leaves out the last field of the object.
JSONstringifyTruncated(c) ==
    LET keys == SelectSeq(CheckpointKeys, LAMBDA k : k \in DOMAIN c)
    IN  [i \in 1 .. (Len(keys) - 1) |-> <<keys[i], c[keys[i]]>>]

\* JSON.stringify(checkpoint): the text, as the <<key, value>> pairs of the
\* fields the object has.
JSONstringify(c) ==
    LET keys == SelectSeq(CheckpointKeys, LAMBDA k : k \in DOMAIN c)
    IN  [i \in DOMAIN keys |-> <<keys[i], c[keys[i]]>>]

\* JSON.parse(stored): the object with the fields the text names.
JSONparse(text) ==
    [k \in {text[i][1] : i \in DOMAIN text} |->
        text[CHOOSE i \in DOMAIN text : text[i][1] = k][2]]

\* localStorage.setItem(SESSION_CHECKPOINT, JSON.stringify(checkpoint))
saveSessionCheckpoint(c) == <<JSONstringify(c)>>

\* JSON.parse of the stored text, null if there is none.
getSessionCheckpoint(slot) == IF slot = << >> THEN << >> ELSE <<JSONparse(slot[1])>>

\* A removal that leaves the stored checkpoint in place.
clearSessionCheckpointSkipped == checkpoint

\* localStorage.removeItem(SESSION_CHECKPOINT)
clearSessionCheckpoint == << >>

savePendingOrphanSession(p) == <<p>>

getPendingOrphanSession(slot) == slot

\* A removal that leaves the stored record in place.
clearPendingOrphanSessionSkipped == pending

clearPendingOrphanSession == << >>

\* The checkpoint held in local storage, as getSessionCheckpoint() returns it.
Stored == getSessionCheckpoint(checkpoint)

updateLocalStats(u) == [totalSeconds |-> u.totalSeconds, sessionsCount |-> u.sessionsCount]

----------------------------------------------------------------------------
(* Steps common to both variants *)

\* Every timer, user, page or clock event counts against the bound of the model.
Event ==
    /\ events < MaxEvents
    /\ events' = events + 1

\* Date.now() moves forward.
AdvanceClock(d) ==
    /\ Event
    /\ now' = now + d
    /\ UNCHANGED <<mounted, checkpoint, pending, localStats, sessionIdRef,
                   sessionStartTimeRef, lastHiddenAtRef, visibility, active,
                   totalUnique, appPending, inflight, user, nextSid>>
    /\ UNCHANGED backendVars

\* The page goes away: memory and suspended handlers are lost, localStorage stays.
PageClose ==
    /\ Event
    /\ mounted = "running"
    /\ mounted' = "closed"
    /\ sessionIdRef' = Null
    /\ sessionStartTimeRef' = Null
    /\ lastHiddenAtRef' = Null
    /\ visibility' = "visible"
    /\ active' = 0
    /\ totalUnique' = 0
    /\ appPending' = << >>
    /\ inflight' = << >>
    /\ UNCHANGED <<now, checkpoint, pending, localStats, user, nextSid>>
    /\ UNCHANGED backendVars

\* fetchStats() up to its first await: the heartbeat request is issued.
BeginFetchStats ==
    /\ Len(inflight) < MaxInflight
    /\ inflight' = Append(inflight, Handler("fetchStats", Null, 0, Null, HeartbeatCall))

\* A catch block that writes no checkpoint.
FetchStatsCatchNoSave(i, saved) ==
    /\ checkpoint' = checkpoint
    /\ active' = 1
    /\ totalUnique' = 1
    /\ inflight' = Remove(inflight, i)
    /\ UNCHANGED <<sessionIdRef, sessionStartTimeRef, nextSid>>

\* A catch block that leaves the displayed counts as they are.
FetchStatsCatchSilent(i, saved) ==
    /\ checkpoint' = saved
    /\ active' = active
    /\ totalUnique' = totalUnique
    /\ inflight' = Remove(inflight, i)
    /\ UNCHANGED <<sessionIdRef, sessionStartTimeRef, nextSid>>

\* catch block of fetchStats: checkpoint anyway, show the local user only.
\* saved is what saveCheckpoint() leaves in the checkpoint slot.
FetchStatsCatch(i, saved) ==
    /\ checkpoint' = saved
    /\ active' = 1
    /\ totalUnique' = 1
    /\ inflight' = Remove(inflight, i)
    /\ UNCHANGED <<sessionIdRef, sessionStartTimeRef, nextSid>>

\* The heartbeat request of fetchStats settles.
FetchStatsHeartbeatDone(i, ok, saved) ==
    /\ inflight[i].h = "fetchStats" /\ inflight[i].pc = "heartbeat"
    /\ IF ~ok
       THEN FetchStatsCatch(i, saved)
       ELSE IF sessionIdRef = Null
            THEN /\ inflight' = [inflight EXCEPT ![i] = Await(@, StartSessionCall)]
                 /\ UNCHANGED <<checkpoint, active, totalUnique, sessionIdRef,
                                sessionStartTimeRef, nextSid>>
            ELSE /\ checkpoint' = saved
                 /\ inflight' = [inflight EXCEPT ![i] = Await(@, CountsCall)]
                 /\ UNCHANGED <<active, totalUnique, sessionIdRef,
                                sessionStartTimeRef, nextSid>>
    /\ UNCHANGED <<now, events, mounted, pending, localStats, lastHiddenAtRef,
                   visibility, appPending, user>>
    /\ UNCHANGED backendVars

\* The start-session request of fetchStats settles.  savedNew is what
\* saveCheckpoint() writes for the new session, saved what it writes otherwise.
FetchStatsStartDone(i, ok, saved, savedNew) ==
    /\ inflight[i].h = "fetchStats" /\ inflight[i].pc = "startSession"
    /\ IF ~ok
       THEN FetchStatsCatch(i, saved)
       ELSE /\ sessionIdRef' = nextSid
            /\ sessionStartTimeRef' = now
            /\ nextSid' = nextSid + 1
            /\ checkpoint' = savedNew
            /\ inflight' = [inflight EXCEPT ![i] = Await(@, CountsCall)]
            /\ UNCHANGED <<active, totalUnique>>
    /\ UNCHANGED <<now, events, mounted, pending, localStats, lastHiddenAtRef,
                   visibility, appPending, user>>
    /\ UNCHANGED backendVars

\* The count query of fetchStats settles.
FetchStatsCountsDone(i, ok, counts, saved) ==
    /\ inflight[i].h = "fetchStats" /\ inflight[i].pc = "counts"
    /\ IF ~ok
       THEN FetchStatsCatch(i, saved)
       ELSE /\ active' = counts[1]
            /\ totalUnique' = counts[2]
            /\ inflight' = Remove(inflight, i)
            /\ UNCHANGED <<checkpoint, sessionIdRef, sessionStartTimeRef, nextSid>>
    /\ UNCHANGED <<now, events, mounted, pending, localStats, lastHiddenAtRef,
                   visibility, appPending, user>>
    /\ UNCHANGED backendVars

\* setInterval(() => fetchStats(), 10000) fires.
Tick ==
    /\ Event
    /\ mounted = "running"
    /\ BeginFetchStats
    /\ UNCHANGED <<now, mounted, checkpoint, pending, localStats, sessionIdRef,
                   sessionStartTimeRef, lastHiddenAtRef, visibility, active,
                   totalUnique, appPending, user, nextSid>>
    /\ UNCHANGED backendVars

\* Second effect of GlobalCounter: initial load ping, interval and listeners.
InitialPing ==
    /\ mounted = "reconciled"
    /\ mounted' = "running"
    /\ BeginFetchStats
    /\ UNCHANGED <<now, events, checkpoint, pending, localStats, sessionIdRef,
                   sessionStartTimeRef, lastHiddenAtRef, visibility, active,
                   totalUnique, appPending, user, nextSid>>
    /\ UNCHANGED backendVars

\* The stats increment issued whatever the duration.
EndSessionSettledAlways(i, h) ==
    /\ inflight[i].h = h /\ inflight[i].pc = "endSession"
    /\ inflight' = [inflight EXCEPT ![i] =
           Await(@, UpdateUserCall(inflight[i].secs, 1, TRUE))]

\* await endSession(...).catch(() => {}) of a handler settles either way: the
\* stats increment follows if the duration is positive, else the user is read.
EndSessionSettled(i, h) ==
    /\ inflight[i].h = h /\ inflight[i].pc = "endSession"
    /\ inflight' = [inflight EXCEPT ![i] =
           IF inflight[i].secs > 0
           THEN Await(@, UpdateUserCall(inflight[i].secs, 1, TRUE))
           ELSE Await(@, GetUserCall)]

\* A test that passes without a session.
SessionHeldAlways == TRUE

\* if (sessionIdRef.current && sessionStartTimeRef.current)
SessionHeld == sessionIdRef # Null /\ sessionStartTimeRef # Null

----------------------------------------------------------------------------
(* components/GlobalCounter.tsx with App.tsx *)

\* A write that takes the time of the write for the start of the session.
saveCheckpointRestarted(slot, sid, st, t) ==
    IF st = Null \/ sid = Null
    THEN slot
    ELSE saveSessionCheckpoint(Checkpoint(sid, Me, t, t))

\* saveCheckpoint(): the new content of the checkpoint slot.
saveCheckpoint(slot, sid, st, t) ==
    IF st = Null \/ sid = Null
    THEN slot
    ELSE saveSessionCheckpoint(Checkpoint(sid, Me, st, t))

\* A pending orphan session that ends when it is found.
PendingOfEndedNow(c) ==
    [sessionId |-> c.sessionId, userId |-> c.userId, startedAt |-> c.startedAt,
     endedAt |-> now,
     durationSeconds |-> DurationSeconds(c.lastCheckpoint, c.startedAt)]

\* The pending orphan session built from a leftover checkpoint.
PendingOf(c) ==
    [sessionId |-> c.sessionId, userId |-> c.userId, startedAt |-> c.startedAt,
     endedAt |-> c.lastCheckpoint,
     durationSeconds |-> DurationSeconds(c.lastCheckpoint, c.startedAt)]

\* The threshold test with > in place of >=.
NeedsConfirmationStrict(c) ==
    DurationSeconds(c.lastCheckpoint, c.startedAt) > ONE_HOUR_IN_SECONDS

\* Does handleExistingCheckpoint ask for confirmation of this checkpoint?
NeedsConfirmation(c) ==
    DurationSeconds(c.lastCheckpoint, c.startedAt) >= ONE_HOUR_IN_SECONDS

Init ==
    /\ now = T0
    /\ events = 0
    /\ mounted = "closed"
    /\ checkpoint \in {<< >>} \cup { saveSessionCheckpoint(c) : c \in LeftoverCheckpoints }
    /\ pending = << >>
    /\ localStats = [totalSeconds |-> 0, sessionsCount |-> 0]
    /\ sessionIdRef = Null
    /\ sessionStartTimeRef = Null
    /\ lastHiddenAtRef = Null
    /\ visibility = "visible"
    /\ active = 0
    /\ totalUnique = 0
    /\ appPending = << >>
    /\ inflight = << >>
    /\ user = [totalSeconds |-> 0, sessionsCount |-> 0]
    /\ nextSid = 2
    /\ users = << >>
    /\ backendUp = TRUE
    /\ reply = NoReply

\* App mounts (reads the stored pending orphan), the user id is set and the
\* first effect of GlobalCounter runs handleExistingCheckpoint.
handleExistingCheckpoint ==
    /\ Event
    /\ mounted = "closed"
    /\ mounted' = "reconciled"
    /\ LET slot == getSessionCheckpoint(checkpoint) IN
       IF slot # << >> /\ slot[1].userId = Me
       THEN /\ IF NeedsConfirmation(slot[1])
               THEN /\ pending' = savePendingOrphanSession(PendingOf(slot[1]))
                    /\ appPending' = <<PendingOf(slot[1])>>
               ELSE /\ pending' = pending
                    /\ appPending' = getPendingOrphanSession(pending)
            /\ checkpoint' = clearSessionCheckpoint
       ELSE /\ appPending' = getPendingOrphanSession(pending)
            /\ UNCHANGED <<pending, checkpoint>>
    /\ UNCHANGED <<now, localStats, sessionIdRef, sessionStartTimeRef,
                   lastHiddenAtRef, visibility, active, totalUnique, inflight,
                   user, nextSid>>
    /\ UNCHANGED backendVars

\* handleStartSession: the entry screen was tapped.
handleStartSession ==
    /\ Event
    /\ mounted = "running"
    /\ IF sessionIdRef = Null THEN BeginFetchStats ELSE UNCHANGED inflight
    /\ UNCHANGED <<now, mounted, checkpoint, pending, localStats, sessionIdRef,
                   sessionStartTimeRef, lastHiddenAtRef, visibility, active,
                   totalUnique, appPending, user, nextSid>>
    /\ UNCHANGED backendVars

\* handleBeforeUnload: a final checkpoint, no backend call.
handleBeforeUnload ==
    /\ Event
    /\ mounted = "running"
    /\ checkpoint' = saveCheckpoint(checkpoint, sessionIdRef, sessionStartTimeRef, now)
    /\ UNCHANGED <<now, mounted, pending, localStats, sessionIdRef,
                   sessionStartTimeRef, lastHiddenAtRef, visibility, active,
                   totalUnique, appPending, inflight, user, nextSid>>
    /\ UNCHANGED backendVars

\* handlePageHide: a checkpoint, no backend call.
handlePageHide ==
    /\ Event
    /\ mounted = "running"
    /\ checkpoint' = saveCheckpoint(checkpoint, sessionIdRef, sessionStartTimeRef, now)
    /\ UNCHANGED <<now, mounted, pending, localStats, sessionIdRef,
                   sessionStartTimeRef, lastHiddenAtRef, visibility, active,
                   totalUnique, appPending, inflight, user, nextSid>>
    /\ UNCHANGED backendVars

\* handleEndSession up to its first await ('endMeditationSession' event).
handleEndSession ==
    /\ Event
    /\ mounted = "running"
    /\ IF SessionHeld
       THEN /\ Len(inflight) < MaxInflight
            /\ LET durationSeconds == DurationSeconds(now, sessionStartTimeRef) IN
               inflight' = Append(inflight,
                   Handler("handleEndSession", sessionIdRef, durationSeconds, Null,
                           EndSessionCall(sessionIdRef, durationSeconds, Null)))
       ELSE UNCHANGED inflight
    /\ UNCHANGED <<now, mounted, checkpoint, pending, localStats, sessionIdRef,
                   sessionStartTimeRef, lastHiddenAtRef, visibility, active,
                   totalUnique, appPending, user, nextSid>>
    /\ UNCHANGED backendVars

\* An end that drops the references and leaves the checkpoint in storage.
EndSessionClearRefsOnly(i) ==
    /\ sessionIdRef' = Null
    /\ sessionStartTimeRef' = Null
    /\ checkpoint' = checkpoint
    /\ inflight' = Remove(inflight, i)

\* "Clear session state" at the end of handleEndSession.
EndSessionClear(i) ==
    /\ sessionIdRef' = Null
    /\ sessionStartTimeRef' = Null
    /\ checkpoint' = clearSessionCheckpoint
    /\ inflight' = Remove(inflight, i)

\* await endSession(...).catch(() => {}) of handleEndSession settles.
EndSessionEndDone(i, ok) ==
    /\ EndSessionSettled(i, "handleEndSession")
    /\ UNCHANGED <<now, events, mounted, checkpoint, pending, localStats,
                   sessionIdRef, sessionStartTimeRef, lastHiddenAtRef, visibility,
                   active, totalUnique, appPending, user, nextSid>>
    /\ UNCHANGED backendVars

\* await updateUser(...) settles; a failure goes to the catch block.
EndSessionUpdateDone(i, ok) ==
    /\ inflight[i].h = "handleEndSession" /\ inflight[i].pc = "updateUser"
    /\ IF ok
       THEN /\ user' = ApplyUpdate(user, Last(inflight[i].log))
            /\ inflight' = [inflight EXCEPT ![i] = Await(@, GetUserCall)]
            /\ UNCHANGED <<checkpoint, sessionIdRef, sessionStartTimeRef>>
       ELSE /\ EndSessionClear(i)
            /\ UNCHANGED user
    /\ UNCHANGED <<now, events, mounted, pending, localStats, lastHiddenAtRef,
                   visibility, active, totalUnique, appPending, nextSid>>
    /\ UNCHANGED backendVars

\* await getUser(userId) settles (null or a throw on failure), the local stats
\* are updated and the session state is cleared.
EndSessionGetDone(i, ok) ==
    /\ inflight[i].h = "handleEndSession" /\ inflight[i].pc = "getUser"
    /\ localStats' = IF ok THEN updateLocalStats(user) ELSE localStats
    /\ EndSessionClear(i)
    /\ UNCHANGED <<now, events, mounted, pending, lastHiddenAtRef, visibility,
                   active, totalUnique, appPending, user, nextSid>>
    /\ UNCHANGED backendVars

\* App.handleConfirmOrphanSession dispatches 'confirmOrphanSession';
\* GlobalCounter.handleConfirmOrphanSession runs up to its first await.
handleConfirmOrphanSession ==
    /\ Event
    /\ mounted = "running"
    /\ appPending # << >>
    /\ appPending' = << >>
    /\ LET session == appPending[1] IN
       IF session.userId # Me
       THEN UNCHANGED inflight
       ELSE /\ Len(inflight) < MaxInflight
            /\ inflight' = Append(inflight,
                   Handler("handleConfirmOrphanSession", session.sessionId,
                           session.durationSeconds, session.endedAt,
                           EndSessionCall(session.sessionId, session.durationSeconds,
                                          session.endedAt)))
    /\ UNCHANGED <<now, mounted, checkpoint, pending, localStats, sessionIdRef,
                   sessionStartTimeRef, lastHiddenAtRef, visibility, active,
                   totalUnique, user, nextSid>>
    /\ UNCHANGED backendVars

\* await endSession(...).catch(() => {}) of the confirmation settles.
ConfirmEndDone(i, ok) ==
    /\ EndSessionSettled(i, "handleConfirmOrphanSession")
    /\ UNCHANGED <<now, events, mounted, checkpoint, pending, localStats,
                   sessionIdRef, sessionStartTimeRef, lastHiddenAtRef, visibility,
                   active, totalUnique, appPending, user, nextSid>>
    /\ UNCHANGED backendVars

\* await updateUser(...) of the confirmation settles.
ConfirmUpdateDone(i, ok) ==
    /\ inflight[i].h = "handleConfirmOrphanSession" /\ inflight[i].pc = "updateUser"
    /\ IF ok
       THEN /\ user' = ApplyUpdate(user, Last(inflight[i].log))
            /\ inflight' = [inflight EXCEPT ![i] = Await(@, GetUserCall)]
            /\ UNCHANGED pending
       ELSE /\ pending' = clearPendingOrphanSession
            /\ inflight' = Remove(inflight, i)
            /\ UNCHANGED user
    /\ UNCHANGED <<now, events, mounted, checkpoint, localStats, sessionIdRef,
                   sessionStartTimeRef, lastHiddenAtRef, visibility, active,
                   totalUnique, appPending, nextSid>>
    /\ UNCHANGED backendVars

\* await getUser(userId) of the confirmation settles; the pending record is cleared.
ConfirmGetDone(i, ok) ==
    /\ inflight[i].h = "handleConfirmOrphanSession" /\ inflight[i].pc = "getUser"
    /\ localStats' = IF ok THEN updateLocalStats(user) ELSE localStats
    /\ pending' = clearPendingOrphanSession
    /\ inflight' = Remove(inflight, i)
    /\ UNCHANGED <<now, events, mounted, checkpoint, sessionIdRef,
                   sessionStartTimeRef, lastHiddenAtRef, visibility, active,
                   totalUnique, appPending, user, nextSid>>
    /\ UNCHANGED backendVars

\* App.handleDenyOrphanSession dispatches 'denyOrphanSession';
\* GlobalCounter.handleDenyOrphanSession clears the pending record.
handleDenyOrphanSession ==
    /\ Event
    /\ mounted = "running"
    /\ appPending # << >>
    /\ appPending' = << >>
    /\ pending' = clearPendingOrphanSession
    /\ UNCHANGED <<now, mounted, checkpoint, localStats, sessionIdRef,
                   sessionStartTimeRef, lastHiddenAtRef, visibility, active,
                   totalUnique, inflight, user, nextSid>>
    /\ UNCHANGED backendVars

\* What saveCheckpoint() of this variant leaves in the slot now.
Saved == saveCheckpoint(checkpoint, sessionIdRef, sessionStartTimeRef, now)

\* A session creation that writes no checkpoint.
SavedNewSkipped == checkpoint

\* What it leaves right after a session was created by the backend.
SavedNew == saveCheckpoint(checkpoint, nextSid, now, now)

Next ==
    \/ \E d \in Deltas : AdvanceClock(d)
    \/ PageClose
    \/ handleExistingCheckpoint
    \/ InitialPing
    \/ Tick
    \/ handleStartSession
    \/ \E i \in DOMAIN inflight, ok \in BOOLEAN : FetchStatsHeartbeatDone(i, ok, Saved)
    \/ \E i \in DOMAIN inflight, ok \in BOOLEAN :
          FetchStatsStartDone(i, ok, Saved, SavedNew)
    \/ \E i \in DOMAIN inflight, ok \in BOOLEAN, c \in CountsReplies :
          FetchStatsCountsDone(i, ok, c, Saved)
    \/ handleBeforeUnload
    \/ handlePageHide
    \/ handleEndSession
    \/ \E i \in DOMAIN inflight, ok \in BOOLEAN : EndSessionEndDone(i, ok)
    \/ \E i \in DOMAIN inflight, ok \in BOOLEAN : EndSessionUpdateDone(i, ok)
    \/ \E i \in DOMAIN inflight, ok \in BOOLEAN : EndSessionGetDone(i, ok)
    \/ handleConfirmOrphanSession
    \/ \E i \in DOMAIN inflight, ok \in BOOLEAN : ConfirmEndDone(i, ok)
    \/ \E i \in DOMAIN inflight, ok \in BOOLEAN : ConfirmUpdateDone(i, ok)
    \/ \E i \in DOMAIN inflight, ok \in BOOLEAN : ConfirmGetDone(i, ok)
    \/ handleDenyOrphanSession

Spec == Init /\ [][Next]_vars

----------------------------------------------------------------------------
(* Properties of the orphan confirmation variant (Spec) *)

C2_NoCreditWithoutConfirm ==
    [][/\ handleExistingCheckpoint => (user' = user /\ inflight' = inflight)
       /\ handleDenyOrphanSession =>
              /\ pending' = << >>
              /\ inflight' = inflight
              /\ user' = user
              /\ localStats' = localStats
       /\ (user' # user) =>
              \E i \in DOMAIN inflight, ok \in BOOLEAN :
                  ConfirmUpdateDone(i, ok) \/ EndSessionUpdateDone(i, ok)
       /\ (/\ Len(inflight') = Len(inflight) + 1
           /\ Last(inflight').h = "handleConfirmOrphanSession") =>
              handleConfirmOrphanSession]_vars

\* C2 case: a confirmed pending orphan session of one hour has been credited.
C2_Witness ==
    \E i \in DOMAIN inflight :
        /\ inflight[i].h = "handleConfirmOrphanSession"
        /\ inflight[i].pc = "getUser"
        /\ inflight[i].secs = 3600
        /\ user.totalSeconds = 3600
        /\ user.sessionsCount = 1

\* The i-th handler in flight is handleEndSession and this step is its last.
EndSessionFinishes(i) ==
    \/ EndSessionUpdateDone(i, FALSE)
    \/ \E ok \in BOOLEAN : EndSessionGetDone(i, ok)

\* C6: the explicit end of a held session with d = floor((now - startedAt) /
\* 1000) first sends endSession(sessionId, d) and then, if and only if d > 0,
\* exactly one stats increment (d seconds, 1 session, last-seen touched); when
\* it finishes the checkpoint is absent, no session reference is held and no
\* pending orphan session has been created.
C6_ExplicitEnd ==
    [][/\ (handleEndSession /\ SessionHeld) =>
              LET d == (now - sessionStartTimeRef) \div 1000 IN
              /\ Len(inflight') = Len(inflight) + 1
              /\ Last(inflight').secs = d
              /\ Last(inflight').log =
                     <<[op |-> "endSession", sid |-> sessionIdRef, secs |-> d,
                        at |-> Null, sessions |-> 0, lastSeen |-> FALSE]>>
       /\ \A i \in DOMAIN inflight :
              EndSessionFinishes(i) =>
                  LET log == inflight[i].log
                      d == inflight[i].secs
                      updates == {k \in DOMAIN log : log[k].op = "updateUser"}
                  IN  /\ log[1].op = "endSession"
                      /\ \A k \in DOMAIN log : log[k].op = "endSession" => k = 1
                      /\ IF d > 0
                         THEN /\ updates = {2}
                              /\ log[2].secs = d
                              /\ log[2].sessions = 1
                              /\ log[2].lastSeen
                         ELSE updates = {}
                      /\ checkpoint' = << >>
                      /\ sessionIdRef' = Null
                      /\ sessionStartTimeRef' = Null
                      /\ pending' = pending]_vars

\* C6 case: an explicit end of a session of positive length has sent
\* endSession and then its stats increment, which the backend applied.
C6_Witness ==
    \E i \in DOMAIN inflight :
        /\ inflight[i].h = "handleEndSession"
        /\ inflight[i].pc = "getUser"
        /\ inflight[i].secs > 0
        /\ Len(inflight[i].log) = 3
        /\ user.totalSeconds >= inflight[i].secs

\* C7: with no session end in between, ticks make one startSession call in
\* total: a startSession call never completes while a session is already
\* held, so that every later tick reuses the session of the first.
C7_SingleStartSession ==
    [][\A i \in DOMAIN inflight :
          FetchStatsStartDone(i, TRUE, Saved, SavedNew) => sessionIdRef = Null]_vars

\* C8: the explicit end with no session reference held makes no backend call
\* and leaves local storage, the session references and the totals unchanged.
C8_EndWithoutSessionIsNoOp ==
    [][(handleEndSession /\ ~(sessionIdRef # Null /\ sessionStartTimeRef # Null)) =>
          UNCHANGED <<inflight, checkpoint, pending, localStats, user,
                      sessionIdRef, sessionStartTimeRef>>]_vars

\* C8 case: a first explicit end has completed and was credited; the page is
\* running with no session reference, where a second request arrives.
C8_Witness ==
    /\ mounted = "running"
    /\ sessionIdRef = Null
    /\ sessionStartTimeRef = Null
    /\ checkpoint = << >>
    /\ inflight = << >>
    /\ user.sessionsCount = 1
    /\ events < MaxEvents

\* The i-th handler in flight is fetchStats and this step is its failure.
FetchStatsFails(i) ==
    \/ FetchStatsHeartbeatDone(i, FALSE, Saved)
    \/ FetchStatsStartDone(i, FALSE, Saved, SavedNew)
    \/ \E c \in CountsReplies : FetchStatsCountsDone(i, FALSE, c, Saved)

\* C9 as amended: a failing backend call of a tick ends the tick with the
\* timer still running and the display at active = 1, total = 1; if a session
\* reference is held, a checkpoint of that session stamped with the time of
\* the failure is in local storage, and if none is held the checkpoint slot is
\* left as it was.
C9_FailedTickFallsBack ==
    [][\A i \in DOMAIN inflight :
          FetchStatsFails(i) =>
              /\ active' = 1
              /\ totalUnique' = 1
              /\ mounted' = "running"
              /\ Len(inflight') = Len(inflight) - 1
              /\ IF sessionIdRef # Null /\ sessionStartTimeRef # Null
                 THEN /\ Len(checkpoint') = 1
                      /\ Stored'[1].sessionId = sessionIdRef
                      /\ Stored'[1].startedAt = sessionStartTimeRef
                      /\ Stored'[1].lastCheckpoint = now
                 ELSE checkpoint' = checkpoint]_vars

\* C9 as stated: after a failing backend call of a tick a checkpoint written
\* at the time of the failure is in local storage and the display is 1 / 1.
C9_CheckpointAfterEveryFailure ==
    [][\A i \in DOMAIN inflight :
          FetchStatsFails(i) =>
              /\ active' = 1
              /\ totalUnique' = 1
              /\ Len(checkpoint') = 1
              /\ Stored'[1].lastCheckpoint = now]_vars

\* C9 case: a tick failed during a session one hour after its start; the
\* checkpoint carries the time of the failure and the display shows 1 / 1.
C9_Witness ==
    /\ sessionIdRef # Null
    /\ checkpoint # << >>
    /\ Stored[1].lastCheckpoint = now
    /\ Stored[1].startedAt < now
    /\ active = 1
    /\ totalUnique = 1
    /\ inflight = << >>

----------------------------------------------------------------------------
(* unnamed/part_011 (GlobalCounter with visibility tracking) *)

\* Date.now() advances between events by one of these amounts.
DeltasBg == {SESSION_BACKGROUND_THRESHOLD_MS, SESSION_BACKGROUND_THRESHOLD_MS + 1}

\* A checkpoint as part_011 writes it.
CheckpointBg(sid, uid, st, t, vis, lh) ==
    [sessionId |-> sid, userId |-> uid, startedAt |-> st, lastCheckpoint |-> t,
     elapsedSeconds |-> FloorSeconds(t, st), wasPageVisible |-> vis,
     lastHiddenAt |-> lh]

\* Checkpoints left by a previous run of a session started 2 h 1 min before T0:
\* hidden 10 s, exactly 120 s and 120 s + 1 ms before T0; hidden 5 min before T0
\* with a last write 10 s later; visible at a last write 2 h before T0; without
\* the visibility fields (written by components/GlobalCounter.tsx), last write
\* 5 min before T0.  And one of a session started after the page was hidden.
LeftoverCheckpointsBg ==
    { CheckpointBg(1, Me, T0 - 7260000, T0 - ago, FALSE, T0 - ago) :
        ago \in {10000, 120000, 120001} }
    \cup { CheckpointBg(1, Me, T0 - 7260000, T0 - 290000, FALSE, T0 - 300000),
           CheckpointBg(1, Me, T0 - 7260000, T0 - 7200000, TRUE, Null),
           CheckpointBg(1, Me, T0 - 7260000, T0 - 300000, FALSE, Null),
           CheckpointBg(1, Me, T0 - 200000, T0 - 150000, FALSE, T0 - 300000) }

\* Every timer, user, page or clock event of this variant counts against its bound.
EventBg ==
    /\ events < MaxEventsBg
    /\ Event

\* saveCheckpoint(): the new content of the checkpoint slot.
saveCheckpointBg(slot, sid, st, t, vis, lh) ==
    IF st = Null \/ sid = Null
    THEN slot
    ELSE saveSessionCheckpoint(CheckpointBg(sid, Me, st, t, vis = "visible", lh))

\* A rule that looks at the age of the last write only.
shouldContinueTimed(c, t) ==
    t - c.lastCheckpoint <= SESSION_BACKGROUND_THRESHOLD_MS

\* The rule with < in place of <=.
shouldContinueStrict(c, t) ==
    IF c.wasPageVisible
    THEN TRUE
    ELSE IF c.lastHiddenAt # Null
         THEN t - c.lastHiddenAt < SESSION_BACKGROUND_THRESHOLD_MS
         ELSE t - c.lastCheckpoint < SESSION_BACKGROUND_THRESHOLD_MS

\* shouldContinue of handleExistingCheckpoint, evaluated at time t.
shouldContinue(c, t) ==
    IF c.wasPageVisible
    THEN TRUE
    ELSE IF c.lastHiddenAt # Null
         THEN t - c.lastHiddenAt <= SESSION_BACKGROUND_THRESHOLD_MS
         ELSE t - c.lastCheckpoint <= SESSION_BACKGROUND_THRESHOLD_MS

\* An end time taken from the last write.
sessionEndTimeLastCheckpoint(c) == c.lastCheckpoint

\* sessionEndTime of the recovery: lastHiddenAt || lastCheckpoint.
sessionEndTime(c) == IF c.lastHiddenAt # Null THEN c.lastHiddenAt ELSE c.lastCheckpoint

InitBg ==
    /\ now = T0
    /\ events = 0
    /\ mounted = "closed"
    /\ checkpoint \in {<< >>} \cup { saveSessionCheckpoint(c) : c \in LeftoverCheckpointsBg }
    /\ pending = << >>
    /\ localStats = [totalSeconds |-> 0, sessionsCount |-> 0]
    /\ sessionIdRef = Null
    /\ sessionStartTimeRef = Null
    /\ lastHiddenAtRef = Null
    /\ visibility = "visible"
    /\ active = 0
    /\ totalUnique = 0
    /\ appPending = << >>
    /\ inflight = << >>
    /\ user = [totalSeconds |-> 0, sessionsCount |-> 0]
    /\ nextSid = 2
    /\ users = << >>
    /\ backendUp = TRUE
    /\ reply = NoReply

\* The page loads with visibility state vis and the first effect runs
\* handleExistingCheckpoint up to its first await.
handleExistingCheckpointBg(vis) ==
    /\ EventBg
    /\ mounted = "closed"
    /\ mounted' = "reconciled"
    /\ visibility' = vis
    /\ LET slot == getSessionCheckpoint(checkpoint) IN
       IF slot # << >> /\ slot[1].userId = Me
       THEN LET c == slot[1]
                totalSeconds == DurationSeconds(sessionEndTime(c), c.startedAt)
            IN  IF shouldContinue(c, now)
                THEN /\ sessionIdRef' = c.sessionId
                     /\ sessionStartTimeRef' = c.startedAt
                     /\ lastHiddenAtRef' = c.lastHiddenAt
                     /\ UNCHANGED <<checkpoint, inflight>>
                ELSE IF totalSeconds <= 0
                     THEN /\ checkpoint' = clearSessionCheckpoint
                          /\ UNCHANGED <<sessionIdRef, sessionStartTimeRef,
                                         lastHiddenAtRef, inflight>>
                     ELSE /\ inflight' = Append(inflight,
                                 Handler("handleExistingCheckpoint", c.sessionId,
                                         totalSeconds, sessionEndTime(c), GetUserCall))
                          /\ UNCHANGED <<checkpoint, sessionIdRef,
                                         sessionStartTimeRef, lastHiddenAtRef>>
       ELSE UNCHANGED <<checkpoint, sessionIdRef, sessionStartTimeRef,
                        lastHiddenAtRef, inflight>>
    /\ UNCHANGED <<now, pending, localStats, active, totalUnique, appPending,
                   user, nextSid>>
    /\ UNCHANGED backendVars

\* The recovery closes the orphaned session: endSession is issued.
RecoverEndSession(hd) == Await(hd, EndSessionCall(hd.sid, hd.secs, hd.at))

\* await getUser(userId) of the recovery settles: a user, null, or a throw.
RecoverGetDone(i, res) ==
    /\ inflight[i].h = "handleExistingCheckpoint" /\ inflight[i].pc = "getUser"
    /\ CASE res = "user" ->
              /\ inflight' = [inflight EXCEPT ![i] =
                     Await([@ EXCEPT !.userData = user],
                           UpdateUserCall(inflight[i].secs, 1, TRUE))]
              /\ UNCHANGED checkpoint
         [] res = "null" ->
              IF inflight[i].sid # Null
              THEN /\ inflight' = [inflight EXCEPT ![i] = RecoverEndSession(@)]
                   /\ UNCHANGED checkpoint
              ELSE /\ inflight' = Remove(inflight, i)
                   /\ checkpoint' = clearSessionCheckpoint
         [] OTHER ->
              /\ inflight' = Remove(inflight, i)
              /\ checkpoint' = clearSessionCheckpoint
    /\ UNCHANGED <<now, events, mounted, pending, localStats, sessionIdRef,
                   sessionStartTimeRef, lastHiddenAtRef, visibility, active,
                   totalUnique, appPending, user, nextSid>>
    /\ UNCHANGED backendVars

\* await updateUser(...) of the recovery settles.
RecoverUpdateDone(i, ok) ==
    /\ inflight[i].h = "handleExistingCheckpoint" /\ inflight[i].pc = "updateUser"
    /\ IF ok
       THEN /\ user' = ApplyUpdate(user, Last(inflight[i].log))
            /\ localStats' = updateLocalStats(
                   [totalSeconds |-> inflight[i].userData.totalSeconds + inflight[i].secs,
                    sessionsCount |-> inflight[i].userData.sessionsCount + 1])
            /\ IF inflight[i].sid # Null
               THEN /\ inflight' = [inflight EXCEPT ![i] = RecoverEndSession(@)]
                    /\ UNCHANGED checkpoint
               ELSE /\ inflight' = Remove(inflight, i)
                    /\ checkpoint' = clearSessionCheckpoint
       ELSE /\ inflight' = Remove(inflight, i)
            /\ checkpoint' = clearSessionCheckpoint
            /\ UNCHANGED <<user, localStats>>
    /\ UNCHANGED <<now, events, mounted, pending, sessionIdRef,
                   sessionStartTimeRef, lastHiddenAtRef, visibility, active,
                   totalUnique, appPending, nextSid>>
    /\ UNCHANGED backendVars

\* await endSession(...).catch(...) of the recovery settles; the checkpoint
\* slot is cleared.
RecoverEndDone(i, ok) ==
    /\ inflight[i].h = "handleExistingCheckpoint" /\ inflight[i].pc = "endSession"
    /\ inflight' = Remove(inflight, i)
    /\ checkpoint' = clearSessionCheckpoint
    /\ UNCHANGED <<now, events, mounted, pending, localStats, sessionIdRef,
                   sessionStartTimeRef, lastHiddenAtRef, visibility, active,
                   totalUnique, appPending, user, nextSid>>
    /\ UNCHANGED backendVars

\* A write that takes the page for visible whatever its state.
SavedBgCachedVisible ==
    saveCheckpointBg(checkpoint, sessionIdRef, sessionStartTimeRef, now, "visible",
                     lastHiddenAtRef)

\* What saveCheckpoint() of this variant leaves in the slot now.
SavedBg ==
    saveCheckpointBg(checkpoint, sessionIdRef, sessionStartTimeRef, now, visibility,
                     lastHiddenAtRef)

\* What it leaves right after a session was created by the backend.
SavedNewBg == saveCheckpointBg(checkpoint, nextSid, now, now, visibility, lastHiddenAtRef)

\* handleBeforeUnload: a final checkpoint, no backend call.
handleBeforeUnloadBg ==
    /\ EventBg
    /\ mounted = "running"
    /\ checkpoint' = SavedBg
    /\ UNCHANGED <<now, mounted, pending, localStats, sessionIdRef,
                   sessionStartTimeRef, lastHiddenAtRef, visibility, active,
                   totalUnique, appPending, inflight, user, nextSid>>
    /\ UNCHANGED backendVars

\* handlePageHide: a checkpoint, no backend call.
handlePageHideBg ==
    /\ EventBg
    /\ mounted = "running"
    /\ checkpoint' = SavedBg
    /\ UNCHANGED <<now, mounted, pending, localStats, sessionIdRef,
                   sessionStartTimeRef, lastHiddenAtRef, visibility, active,
                   totalUnique, appPending, inflight, user, nextSid>>
    /\ UNCHANGED backendVars

\* "Clear session state" at the end of handleEndSession.
EndSessionClearBg(i) ==
    /\ sessionIdRef' = Null
    /\ sessionStartTimeRef' = Null
    /\ lastHiddenAtRef' = Null
    /\ checkpoint' = clearSessionCheckpoint
    /\ inflight' = Remove(inflight, i)

\* await updateUser(...) of handleEndSession settles.
EndSessionUpdateDoneBg(i, ok) ==
    /\ inflight[i].h = "handleEndSession" /\ inflight[i].pc = "updateUser"
    /\ IF ok
       THEN /\ user' = ApplyUpdate(user, Last(inflight[i].log))
            /\ inflight' = [inflight EXCEPT ![i] = Await(@, GetUserCall)]
            /\ UNCHANGED <<checkpoint, sessionIdRef, sessionStartTimeRef,
                           lastHiddenAtRef>>
       ELSE /\ EndSessionClearBg(i)
            /\ UNCHANGED user
    /\ UNCHANGED <<now, events, mounted, pending, localStats, visibility, active,
                   totalUnique, appPending, nextSid>>
    /\ UNCHANGED backendVars

\* await getUser(userId) of handleEndSession settles.
EndSessionGetDoneBg(i, ok) ==
    /\ inflight[i].h = "handleEndSession" /\ inflight[i].pc = "getUser"
    /\ localStats' = IF ok THEN updateLocalStats(user) ELSE localStats
    /\ EndSessionClearBg(i)
    /\ UNCHANGED <<now, events, mounted, pending, visibility, active,
                   totalUnique, appPending, user, nextSid>>
    /\ UNCHANGED backendVars

\* A hidden branch that does not record the time.
handleVisibilityHiddenNoStamp ==
    /\ EventBg
    /\ mounted = "running"
    /\ visibility = "visible"
    /\ visibility' = "hidden"
    /\ lastHiddenAtRef' = lastHiddenAtRef
    /\ checkpoint' = saveCheckpointBg(checkpoint, sessionIdRef, sessionStartTimeRef,
                                      now, "hidden", lastHiddenAtRef)
    /\ UNCHANGED <<now, mounted, pending, localStats, sessionIdRef,
                   sessionStartTimeRef, active, totalUnique, appPending, inflight,
                   user, nextSid>>
    /\ UNCHANGED backendVars

\* handleVisibilityChange, document.visibilityState === 'hidden'.
handleVisibilityHidden ==
    /\ EventBg
    /\ mounted = "running"
    /\ visibility = "visible"
    /\ visibility' = "hidden"
    /\ lastHiddenAtRef' = now
    /\ checkpoint' = saveCheckpointBg(checkpoint, sessionIdRef, sessionStartTimeRef,
                                      now, "hidden", now)
    /\ UNCHANGED <<now, mounted, pending, localStats, sessionIdRef,
                   sessionStartTimeRef, active, totalUnique, appPending, inflight,
                   user, nextSid>>
    /\ UNCHANGED backendVars

\* handleVisibilityChange, document.visibilityState === 'visible', up to its
\* first await or, when no session is to be ended, to its end.
handleVisibilityVisible ==
    /\ EventBg
    /\ mounted = "running"
    /\ visibility = "hidden"
    /\ visibility' = "visible"
    /\ IF lastHiddenAtRef # Null
          /\ now - lastHiddenAtRef > SESSION_BACKGROUND_THRESHOLD_MS
       THEN IF SessionHeld
            THEN /\ Len(inflight) < MaxInflight
                 /\ LET durationSeconds ==
                            DurationSeconds(lastHiddenAtRef, sessionStartTimeRef)
                    IN  inflight' = Append(inflight,
                            Handler("handleVisibilityChange", sessionIdRef,
                                    durationSeconds, lastHiddenAtRef,
                                    EndSessionCall(sessionIdRef, durationSeconds,
                                                   lastHiddenAtRef)))
                 /\ UNCHANGED <<lastHiddenAtRef, checkpoint>>
            ELSE /\ lastHiddenAtRef' = Null
                 /\ checkpoint' = saveCheckpointBg(checkpoint, sessionIdRef,
                        sessionStartTimeRef, now, "visible", Null)
                 /\ UNCHANGED inflight
       ELSE /\ checkpoint' = saveCheckpointBg(checkpoint, sessionIdRef,
                   sessionStartTimeRef, now, "visible", lastHiddenAtRef)
            /\ UNCHANGED <<lastHiddenAtRef, inflight>>
    /\ UNCHANGED <<now, mounted, pending, localStats, sessionIdRef,
                   sessionStartTimeRef, active, totalUnique, appPending, user,
                   nextSid>>
    /\ UNCHANGED backendVars

\* End of the force-end: session state cleared, 'endMeditationSession'
\* dispatched (handleEndSession finds no session), lastHiddenAt reset and
\* saveCheckpoint() called with no session held.
ForceEndClear(i) ==
    /\ sessionIdRef' = Null
    /\ sessionStartTimeRef' = Null
    /\ lastHiddenAtRef' = Null
    /\ checkpoint' = saveCheckpointBg(clearSessionCheckpoint, Null, Null, now,
                                      visibility, Null)
    /\ inflight' = Remove(inflight, i)

\* await endSession(...).catch(() => {}) of the force-end settles.
ForceEndEndDone(i, ok) ==
    /\ EndSessionSettled(i, "handleVisibilityChange")
    /\ UNCHANGED <<now, events, mounted, checkpoint, pending, localStats,
                   sessionIdRef, sessionStartTimeRef, lastHiddenAtRef, visibility,
                   active, totalUnique, appPending, user, nextSid>>
    /\ UNCHANGED backendVars

\* await updateUser(...) of the force-end settles.
ForceEndUpdateDone(i, ok) ==
    /\ inflight[i].h = "handleVisibilityChange" /\ inflight[i].pc = "updateUser"
    /\ IF ok
       THEN /\ user' = ApplyUpdate(user, Last(inflight[i].log))
            /\ inflight' = [inflight EXCEPT ![i] = Await(@, GetUserCall)]
            /\ UNCHANGED <<checkpoint, sessionIdRef, sessionStartTimeRef,
                           lastHiddenAtRef>>
       ELSE /\ ForceEndClear(i)
            /\ UNCHANGED user
    /\ UNCHANGED <<now, events, mounted, pending, localStats, visibility, active,
                   totalUnique, appPending, nextSid>>
    /\ UNCHANGED backendVars

\* await getUser(userId) of the force-end settles.
ForceEndGetDone(i, ok) ==
    /\ inflight[i].h = "handleVisibilityChange" /\ inflight[i].pc = "getUser"
    /\ localStats' = IF ok THEN updateLocalStats(user) ELSE localStats
    /\ ForceEndClear(i)
    /\ UNCHANGED <<now, events, mounted, pending, visibility, active,
                   totalUnique, appPending, user, nextSid>>
    /\ UNCHANGED backendVars

\* Date.now() moves forward.
AdvanceClockBg(d) == events < MaxEventsBg /\ AdvanceClock(d)

\* The page goes away.
PageCloseBg == events < MaxEventsBg /\ PageClose

\* setInterval(() => fetchStats(), 10000) fires.
TickBg == events < MaxEventsBg /\ Tick

\* handleEndSession up to its first await ('endMeditationSession' event).
handleEndSessionBg == events < MaxEventsBg /\ handleEndSession

NextBg ==
    \/ \E d \in DeltasBg : AdvanceClockBg(d)
    \/ PageCloseBg
    \/ \E vis \in {"visible", "hidden"} : handleExistingCheckpointBg(vis)
    \/ \E i \in DOMAIN inflight, res \in {"user", "null", "throw"} : RecoverGetDone(i, res)
    \/ \E i \in DOMAIN inflight, ok \in BOOLEAN : RecoverUpdateDone(i, ok)
    \/ \E i \in DOMAIN inflight, ok \in BOOLEAN : RecoverEndDone(i, ok)
    \/ InitialPing
    \/ TickBg
    \/ \E i \in DOMAIN inflight, ok \in BOOLEAN : FetchStatsHeartbeatDone(i, ok, SavedBg)
    \/ \E i \in DOMAIN inflight, ok \in BOOLEAN :
          FetchStatsStartDone(i, ok, SavedBg, SavedNewBg)
    \/ \E i \in DOMAIN inflight, ok \in BOOLEAN, c \in CountsReplies :
          FetchStatsCountsDone(i, ok, c, SavedBg)
    \/ handleBeforeUnloadBg
    \/ handlePageHideBg
    \/ handleEndSessionBg
    \/ \E i \in DOMAIN inflight, ok \in BOOLEAN : EndSessionEndDone(i, ok)
    \/ \E i \in DOMAIN inflight, ok \in BOOLEAN : EndSessionUpdateDoneBg(i, ok)
    \/ \E i \in DOMAIN inflight, ok \in BOOLEAN : EndSessionGetDoneBg(i, ok)
    \/ handleVisibilityHidden
    \/ handleVisibilityVisible
    \/ \E i \in DOMAIN inflight, ok \in BOOLEAN : ForceEndEndDone(i, ok)
    \/ \E i \in DOMAIN inflight, ok \in BOOLEAN : ForceEndUpdateDone(i, ok)
    \/ \E i \in DOMAIN inflight, ok \in BOOLEAN : ForceEndGetDone(i, ok)

SpecBg == InitBg /\ [][NextBg]_vars

----------------------------------------------------------------------------
(* Properties of the visibility tracking variant (SpecBg) *)

\* This step is the startup reconciliation and it continues the session of
\* checkpoint c: references restored, checkpoint kept, no backend call.
Continues(c) ==
    /\ sessionIdRef' = c.sessionId
    /\ sessionStartTimeRef' = c.startedAt
    /\ Stored' = <<c>>
    /\ inflight' = inflight

C4_HiddenCheckpointThreshold ==
    [][\A vis \in {"visible", "hidden"} :
          (/\ handleExistingCheckpointBg(vis)
           /\ checkpoint # << >>
           /\ ~Stored[1].wasPageVisible
           /\ Stored[1].lastHiddenAt # Null) =>
              /\ shouldContinue(Stored[1], now)
                     <=> (now - Stored[1].lastHiddenAt <= 120000)
              /\ Continues(Stored[1])
                     <=> (now - Stored[1].lastHiddenAt <= 120000)]_vars

\* C4 case (scenario A): a session started 2 h 1 min ago and hidden 10 s ago
\* has been continued at startup.
C4_Witness ==
    /\ mounted = "reconciled"
    /\ checkpoint # << >>
    /\ ~Stored[1].wasPageVisible
    /\ Stored[1].lastHiddenAt = now - 10000
    /\ Stored[1].startedAt = now - 7260000
    /\ sessionIdRef = Stored[1].sessionId
    /\ sessionStartTimeRef = Stored[1].startedAt

\* The calls of a force-end or recovery handler carry its duration and end time.
CallsCarry(hd) ==
    \A k \in DOMAIN hd.log :
        /\ hd.log[k].op = "endSession" =>
               (hd.log[k].sid = hd.sid /\ hd.log[k].secs = hd.secs /\ hd.log[k].at = hd.at)
        /\ hd.log[k].op = "updateUser" =>
               (hd.log[k].secs = hd.secs /\ hd.log[k].sessions = 1)

\* floor((h - st) / 1000), clamped at 0 if asked.
Elapsed(h, st, clamped) ==
    IF clamped /\ (h - st) \div 1000 < 0 THEN 0 ELSE (h - st) \div 1000

\* A step ends a session for its time in the background with the elapsed time
\* from startedAt to the hidden time and that end time: on return to visible
\* and at startup the handler is created with that duration and end time, its
\* calls carry them, and the totals grow by that duration.
ForceEndCredits(clamped) ==
       /\ (handleVisibilityVisible /\ Len(inflight') = Len(inflight) + 1) =>
              /\ Last(inflight').at = lastHiddenAtRef
              /\ Last(inflight').secs = Elapsed(lastHiddenAtRef, sessionStartTimeRef, clamped)
              /\ Last(inflight').sid = sessionIdRef
       /\ \A vis \in {"visible", "hidden"} :
              (/\ handleExistingCheckpointBg(vis)
               /\ Len(inflight') = Len(inflight) + 1
               /\ Stored[1].lastHiddenAt # Null) =>
                  /\ Last(inflight').at = Stored[1].lastHiddenAt
                  /\ Last(inflight').secs =
                         Elapsed(Stored[1].lastHiddenAt, Stored[1].startedAt,
                                 clamped)
                  /\ Last(inflight').sid = Stored[1].sessionId
       /\ \A i \in DOMAIN inflight :
              inflight[i].h \in {"handleVisibilityChange", "handleExistingCheckpoint"} =>
                  /\ CallsCarry(inflight[i])
                  /\ (\E ok \in BOOLEAN :
                          ForceEndUpdateDone(i, ok) \/ RecoverUpdateDone(i, ok)) =>
                         user'.totalSeconds \in
                             {user.totalSeconds, user.totalSeconds + inflight[i].secs}

\* C5 as amended: a session ended for exceeding the background threshold is
\* ended with duration max(0, floor((lastHiddenAt - startedAt) / 1000)) and end
\* time lastHiddenAt; that duration, and no more, is added to the totals.
C5_ForceEndDurationClamped ==
    [][ForceEndCredits(TRUE)]_vars

\* C5 as stated: the duration is floor((lastHiddenAt - startedAt) / 1000).
C5_ForceEndDurationFloor ==
    [][ForceEndCredits(FALSE)]_vars

\* C5 case: on return to visible after more than 120 s a session of positive
\* length was ended at its hidden time and credited with that length.
C5_Witness ==
    \E i \in DOMAIN inflight :
        /\ inflight[i].h = "handleVisibilityChange"
        /\ inflight[i].pc = "getUser"
        /\ inflight[i].secs > 0
        /\ now - inflight[i].at > 120000
        /\ user.totalSeconds >= inflight[i].secs

\* The steps that take a held session away or remove its checkpoint: the page
\* goes away, an explicit end finishes, or a session is ended for its time in
\* the background, more than 120 s after the hidden time h the code examines
\* (with during: h recorded and not before the start of the session).
EndsOnlyAfterBackground(during) ==
    /\ ((sessionIdRef # Null /\ sessionIdRef' = Null)
           \/ (checkpoint # << >> /\ checkpoint' = << >>)) =>
          \/ PageCloseBg
          \/ \E i \in DOMAIN inflight, ok \in BOOLEAN :
                 EndSessionUpdateDoneBg(i, ok) \/ EndSessionGetDoneBg(i, ok)
          \/ \E i \in DOMAIN inflight, ok \in BOOLEAN :
                 /\ ForceEndUpdateDone(i, ok) \/ ForceEndGetDone(i, ok)
                 /\ now - inflight[i].at > 120000
          \/ \E i \in DOMAIN inflight, ok \in BOOLEAN, res \in {"user", "null", "throw"} :
                 /\ RecoverGetDone(i, res) \/ RecoverUpdateDone(i, ok) \/ RecoverEndDone(i, ok)
                 /\ now - inflight[i].at > 120000
          \/ \E vis \in {"visible", "hidden"} : handleExistingCheckpointBg(vis)
    /\ (handleVisibilityVisible /\ Len(inflight') = Len(inflight) + 1) =>
          /\ lastHiddenAtRef # Null
          /\ now - lastHiddenAtRef > 120000
          /\ during => lastHiddenAtRef >= sessionStartTimeRef
    /\ \A vis \in {"visible", "hidden"} :
          (/\ handleExistingCheckpointBg(vis)
           /\ checkpoint # << >>
           /\ ~Continues(Stored[1])) =>
              LET c == Stored[1]
                  h == IF c.lastHiddenAt # Null THEN c.lastHiddenAt ELSE c.lastCheckpoint
              IN  /\ ~c.wasPageVisible
                  /\ now - h > 120000
                  /\ during => (c.lastHiddenAt # Null /\ c.lastHiddenAt >= c.startedAt)

\* C10 as amended: without an explicit end request a session is ended only
\* (a) on return to visible when the hidden time held in memory, which may be
\* older than the session, lies more than 120000 ms back, or (b) at startup
\* from a checkpoint written while hidden whose hidden time, or whose last
\* write when it records no hidden time, lies more than 120000 ms back; a
\* tick never ends a session.
C10_EndedOnlyAfterBackground ==
    [][EndsOnlyAfterBackground(FALSE)]_vars

\* C10 as stated: such an end happens only if the page went hidden at a time
\* h during the session and the session is examined with now - h > 120000 ms.
C10_EndedOnlyIfHiddenDuringSession ==
    [][EndsOnlyAfterBackground(TRUE)]_vars

\* C10 case: at startup a session hidden for more than 120 s is being ended
\* at its hidden time, its time up to then credited.
C10_Witness ==
    \E i \in DOMAIN inflight :
        /\ inflight[i].h = "handleExistingCheckpoint"
        /\ inflight[i].pc = "endSession"
        /\ now - inflight[i].at > 120000
        /\ user.totalSeconds = inflight[i].secs
        /\ sessionIdRef = Null

\* C11: going hidden, pagehide and beforeunload make no backend call and leave
\* the session id and start time held in memory unchanged; their only effect
\* is the checkpoint written for a held session, stamped with the current
\* time (and, for hidden, lastHiddenAt = now, also in the checkpoint), so none
\* of them ends the session.
C11_BackgroundHandlersOnlyCheckpoint ==
    [][(handleVisibilityHidden \/ handlePageHideBg \/ handleBeforeUnloadBg) =>
          /\ UNCHANGED <<inflight, user, sessionIdRef, sessionStartTimeRef, pending,
                         localStats, active, totalUnique, mounted>>
          /\ IF handleVisibilityHidden
             THEN lastHiddenAtRef' = now
             ELSE lastHiddenAtRef' = lastHiddenAtRef
          /\ IF sessionIdRef # Null /\ sessionStartTimeRef # Null
             THEN /\ Len(Stored') = 1
                  /\ Stored'[1].sessionId = sessionIdRef
                  /\ Stored'[1].startedAt = sessionStartTimeRef
                  /\ Stored'[1].lastCheckpoint = now
                  /\ Stored'[1].lastHiddenAt = lastHiddenAtRef'
             ELSE checkpoint' = checkpoint]_vars

\* C11 case: the page went hidden during a held session; the session is still
\* held, nothing is in flight and the checkpoint records the hidden time.
C11_Witness ==
    /\ visibility = "hidden"
    /\ lastHiddenAtRef = now
    /\ sessionIdRef # Null
    /\ sessionStartTimeRef # Null
    /\ inflight = << >>
    /\ Stored # << >>
    /\ Stored[1].sessionId = sessionIdRef
    /\ Stored[1].lastHiddenAt = now
    /\ ~Stored[1].wasPageVisible

\* C21: on return to visible with now - lastHiddenAt <= 120000 ms the held
\* session continues: the session id and start time are unchanged, no backend
\* call is made, and lastHiddenAt is cleared, in memory and in the checkpoint
\* the handler writes.
C21_WithinThresholdClearsHiddenAt ==
    [][(/\ handleVisibilityVisible
        /\ SessionHeld
        /\ lastHiddenAtRef # Null
        /\ now - lastHiddenAtRef <= 120000) =>
          /\ UNCHANGED <<sessionIdRef, sessionStartTimeRef, inflight, user>>
          /\ Len(Stored') = 1
          /\ Stored'[1].sessionId = sessionIdRef
          /\ Stored'[1].startedAt = sessionStartTimeRef
          /\ Stored'[1].wasPageVisible
          /\ lastHiddenAtRef' = Null
          /\ Stored'[1].lastHiddenAt = Null]_vars

\* C22: after the page went hidden at time h during a held session, every
\* checkpoint written for that session before the next return to visible
\* carries lastHiddenAt = h and wasPageVisible = false, also when it is written
\* by a tick that was in flight across the transition.  The hidden step
\* records h = now; while the page stays hidden and the session stays the same
\* the recorded time is kept; and every write, by whatever handler, records
\* the visibility state and the hidden time as they are at the write.
C22_CheckpointReflectsHiddenState ==
    [][/\ handleVisibilityHidden =>
              /\ lastHiddenAtRef' = now
              /\ SessionHeld =>
                     /\ Len(Stored') = 1
                     /\ Stored'[1].sessionId = sessionIdRef
                     /\ Stored'[1].lastHiddenAt = now
                     /\ ~Stored'[1].wasPageVisible
       /\ (/\ visibility = "hidden" /\ visibility' = "hidden"
           /\ sessionIdRef # Null /\ sessionIdRef' = sessionIdRef) =>
              lastHiddenAtRef' = lastHiddenAtRef
       /\ (checkpoint' # checkpoint /\ checkpoint' # << >>) =>
              /\ Stored'[1].wasPageVisible = (visibility' = "visible")
              /\ Stored'[1].lastHiddenAt = lastHiddenAtRef'
              /\ Stored'[1].sessionId = sessionIdRef']_vars

\* C22 case: a tick that began before the page went hidden has written the
\* checkpoint of the held session after the transition, at a later time; the
\* checkpoint carries the hidden time and wasPageVisible = false.
C22_Witness ==
    /\ visibility = "hidden"
    /\ sessionIdRef # Null
    /\ lastHiddenAtRef # Null
    /\ events = 3
    /\ Stored # << >>
    /\ Stored[1].sessionId = sessionIdRef
    /\ Stored[1].lastHiddenAt = lastHiddenAtRef
    /\ Stored[1].lastCheckpoint = now
    /\ now > lastHiddenAtRef
    /\ lastHiddenAtRef = T0
    /\ ~Stored[1].wasPageVisible
    /\ Len(inflight) = 1
    /\ inflight[1].h = "fetchStats"
    /\ inflight[1].pc = "counts"

\* C29: the recovery of an old checkpoint never removes the checkpoint of a
\* new session.  When a step of the startup recovery empties the slot, the
\* checkpoint it removes is the one of the session being recovered, also when
\* the initial tick has created a session and written its checkpoint while
\* the recovery was awaiting the backend.
C29_RecoveryKeepsNewCheckpoint ==
    [][\A i \in DOMAIN inflight :
          (/\ \E ok \in BOOLEAN, res \in {"user", "null", "throw"} :
                  \/ RecoverGetDone(i, res)
                  \/ RecoverUpdateDone(i, ok)
                  \/ RecoverEndDone(i, ok)
           /\ Stored # << >>
           /\ Stored' = << >>) =>
              Stored[1].sessionId = inflight[i].sid]_vars

\* The backend has applied the stats increment of this handler.
HasCredited(hd) ==
    /\ hd.pc \in {"getUser", "endSession"}
    /\ \E k \in DOMAIN hd.log : hd.log[k].op = "updateUser"

\* C30: no time is credited twice: each session is committed to the user's
\* totals at most once, also when an End Session event arrives while a
\* force-end of the same session is awaiting the backend.  When the backend
\* applies the stats increment of a handler that ends session s, no other
\* handler in flight has already had an increment applied for s.
C30_SessionCreditedAtMostOnce ==
    [][\A i \in DOMAIN inflight :
          (\/ EndSessionUpdateDoneBg(i, TRUE)
           \/ ForceEndUpdateDone(i, TRUE)
           \/ RecoverUpdateDone(i, TRUE)) =>
              \A j \in DOMAIN inflight \ {i} :
                  ~(inflight[j].sid = inflight[i].sid /\ HasCredited(inflight[j]))]_vars

----------------------------------------------------------------------------
(* Further properties of the orphan confirmation variant (Spec) *)

\* C13: a leftover checkpoint is evaluated by the startup reconciliation at
\* most once.  The load that evaluates it leaves the checkpoint slot empty,
\* and a load that finds the slot empty (no checkpoint was written since)
\* creates no pending orphan session and changes nothing in storage.
C13_CheckpointEvaluatedOnce ==
    [][handleExistingCheckpoint =>
          /\ checkpoint' = << >>
          /\ getSessionCheckpoint(checkpoint') = << >>
          /\ checkpoint = << >> =>
                 UNCHANGED <<pending, localStats, user, inflight>>]_vars

\* C13 case: a first load turned the leftover checkpoint into a pending
\* orphan session, the page went away, and a second load has run with
\* nothing to evaluate.
C13_Witness ==
    /\ events = 3
    /\ mounted = "reconciled"
    /\ checkpoint = << >>
    /\ pending # << >>
    /\ pending[1].sessionId = 1
    /\ appPending = pending

\* C14: a failed network call never loses session time silently.  When the
\* stats increment of an explicit end fails, a checkpoint of that session is
\* still in local storage afterwards, and when the stats increment of an
\* orphan confirmation fails, the pending record of that session is.
C14_FailureKeepsLocalRecord ==
    [][\A i \in DOMAIN inflight :
          /\ EndSessionUpdateDone(i, FALSE) =>
                 /\ Stored' # << >>
                 /\ Stored'[1].sessionId = inflight[i].sid
          /\ ConfirmUpdateDone(i, FALSE) =>
                 /\ pending' # << >>
                 /\ pending'[1].sessionId = inflight[i].sid]_vars

Placeholder(a, t) == a = 0 /\ t = 0

C23_OrphanCommittedAtMostOnce ==
    nextSid = 2 =>
        /\ user.sessionsCount <= 1
        /\ user.totalSeconds <= ONE_HOUR_IN_SECONDS

\* C24: a late tick result does not resurrect an explicitly ended session.
\* When the explicit end of session s finishes, no session reference is held
\* and the checkpoint slot is empty, whatever ticks are in flight; from then
\* on s is older than every id the backend assigns, a reference is only ever
\* set to a newly assigned id, and a checkpoint is only ever written for the
\* session whose reference is held at the write.
C24_EndedSessionNotResurrected ==
    [][/\ \A i \in DOMAIN inflight :
              EndSessionFinishes(i) =>
                  /\ sessionIdRef' = Null
                  /\ sessionStartTimeRef' = Null
                  /\ Stored' = << >>
                  /\ inflight[i].sid < nextSid
       /\ (sessionIdRef' # sessionIdRef /\ sessionIdRef' # Null) =>
              /\ sessionIdRef' = nextSid
              /\ nextSid' = nextSid + 1
              /\ sessionStartTimeRef' # Null
       /\ (checkpoint' # checkpoint /\ checkpoint' # << >>) =>
              /\ sessionIdRef' # Null
              /\ Stored'[1].sessionId = sessionIdRef'
       /\ nextSid' >= nextSid]_vars

\* C24 case: a tick began during a held session and is awaiting its first
\* request, while the explicit end of that session, requested later, has been
\* credited and is about to finish.
C24_Witness ==
    /\ Len(inflight) = 2
    /\ inflight[1].h = "fetchStats"
    /\ inflight[1].pc = "heartbeat"
    /\ inflight[2].h = "handleEndSession"
    /\ inflight[2].pc = "getUser"
    /\ inflight[2].sid = sessionIdRef
    /\ Stored # << >>
    /\ Stored[1].sessionId = sessionIdRef
    /\ user.sessionsCount = 1

\* C25: at most one pending orphan session is stored at any time, and a
\* stored one has durationSeconds >= 3600 and durationSeconds =
\* floor((endedAt - startedAt) / 1000).  It is created by the startup
\* reconciliation only, with sessionId, userId and startedAt copied from the
\* checkpoint it was created from, and a newly created one replaces an earlier
\* one that is still unresolved.
C25_SinglePendingOrphan ==
    /\ [](/\ Len(pending) <= 1
          /\ \A k \in DOMAIN pending :
                 /\ pending[k].durationSeconds >= 3600
                 /\ pending[k].durationSeconds =
                        (pending[k].endedAt - pending[k].startedAt) \div 1000
                 /\ pending[k].userId = Me)
    /\ [][/\ (pending' # pending /\ pending' # << >>) =>
                  /\ handleExistingCheckpoint
                  /\ Stored # << >>
                  /\ pending' = <<[sessionId |-> Stored[1].sessionId,
                                   userId |-> Stored[1].userId,
                                   startedAt |-> Stored[1].startedAt,
                                   endedAt |-> Stored[1].lastCheckpoint,
                                   durationSeconds |-> pending'[1].durationSeconds]>>
          /\ (/\ handleExistingCheckpoint
              /\ pending # << >>
              /\ Stored # << >>
              /\ (Stored[1].lastCheckpoint - Stored[1].startedAt) \div 1000 >= 3600) =>
                 /\ Len(pending') = 1
                 /\ pending'[1].sessionId = Stored[1].sessionId]_vars

\* C25 case: the orphan of the previous run was still unresolved when a
\* session started by this page, an hour long, was found at the next load; the
\* stored pending orphan session is now the one of the later session.
C25_Witness ==
    /\ mounted = "reconciled"
    /\ events = 5
    /\ Len(pending) = 1
    /\ pending[1].sessionId = 2
    /\ pending[1].startedAt = T0
    /\ pending[1].durationSeconds = 3600
    /\ appPending = pending
    /\ checkpoint = << >>
    /\ user.sessionsCount = 0

\* C26: once the startup reconciliation has run and whenever no handler is
\* suspended at an await, local storage holds a checkpoint of the current user
\* if and only if a session reference is held in memory, and then the
\* checkpoint's sessionId and startedAt are the session id and start time held.
C26_CheckpointMirrorsSession ==
    (mounted \in {"reconciled", "running"} /\ inflight = << >>) =>
        /\ (Stored # << >> /\ Stored[1].userId = Me)
               <=> (sessionIdRef # Null /\ sessionStartTimeRef # Null)
        /\ sessionIdRef # Null <=> sessionStartTimeRef # Null
        /\ Stored # << >> =>
               /\ Stored[1].sessionId = sessionIdRef
               /\ Stored[1].startedAt = sessionStartTimeRef

\* C26 case: a session is held with no handler in flight, and its checkpoint,
\* rewritten by a later tick, carries its id and start time.
C26_Witness ==
    /\ mounted = "running"
    /\ inflight = << >>
    /\ sessionIdRef # Null
    /\ Stored # << >>
    /\ Stored[1].sessionId = sessionIdRef
    /\ Stored[1].startedAt = sessionStartTimeRef
    /\ Stored[1].lastCheckpoint > Stored[1].startedAt

\* C28: overlapping ticks create at most one backend session: no session is
\* started and then left without a later endSession from this tab.  The
\* reference to a held session, the only place its id is kept for the end
\* call, is given up only when an explicit end of that very session finishes
\* or when the page goes away.
C28_NoSessionLeftOpen ==
    [][(sessionIdRef # Null /\ sessionIdRef' # sessionIdRef) =>
          \/ PageClose
          \/ \E i \in DOMAIN inflight :
                 EndSessionFinishes(i) /\ inflight[i].sid = sessionIdRef]_vars

----------------------------------------------------------------------------
(* StorageManager: the checkpoint slot on its own (SpecStore) *)

\* Times at which a checkpoint is started, written or hidden.
StoreTimes == {T0 - HEARTBEAT_MS, T0, T0 + HEARTBEAT_MS}

\* The checkpoints that the two variants of saveCheckpoint() can pass.
ValidCheckpoints ==
    { Checkpoint(sid, Me, st, t) : sid \in {1, 2}, st \in StoreTimes, t \in StoreTimes }
    \cup UNION { { CheckpointBg(sid, Me, st, t, vis, lh) :
                       sid \in {1, 2}, st \in StoreTimes, vis \in BOOLEAN,
                       lh \in {Null, t} } : t \in StoreTimes }

InitStore ==
    /\ Init
    /\ checkpoint = << >>

\* StorageManager.saveSessionCheckpoint(c) is called.
StoreSave(c) ==
    /\ Event
    /\ checkpoint' = saveSessionCheckpoint(c)
    /\ UNCHANGED <<now, mounted, pending, localStats, sessionIdRef,
                   sessionStartTimeRef, lastHiddenAtRef, visibility, active,
                   totalUnique, appPending, inflight, user, nextSid>>
    /\ UNCHANGED backendVars

\* StorageManager.clearSessionCheckpoint() is called.
StoreClear ==
    /\ Event
    /\ checkpoint' = clearSessionCheckpoint
    /\ UNCHANGED <<now, mounted, pending, localStats, sessionIdRef,
                   sessionStartTimeRef, lastHiddenAtRef, visibility, active,
                   totalUnique, appPending, inflight, user, nextSid>>
    /\ UNCHANGED backendVars

NextStore ==
    \/ \E c \in ValidCheckpoints : StoreSave(c)
    \/ StoreClear

SpecStore == InitStore /\ [][NextStore]_vars

----------------------------------------------------------------------------
(* lib/database.ts and the local server: the users table (SpecDb) *)

UserIds == {Me, "u2", "u3"}

\* A row of the users table.
UserRow(secs, sessions, seen) ==
    [totalSeconds |-> secs, sessionsCount |-> sessions, lastSeen |-> seen]

\* Tables at the start: the current user may be unknown to the backend, two
\* users may have no time, equal times or different times, and were last
\* seen now, exactly 30 s ago or 1 ms earlier.
InitialTables ==
    LET Rows == { UserRow(secs, secs \div ONE_HOUR_IN_SECONDS, T0 - ago) :
                     secs \in {0, ONE_HOUR_IN_SECONDS, 2 * ONE_HOUR_IN_SECONDS},
                     ago \in {0, ACTIVE_WINDOW_MS, ACTIVE_WINDOW_MS + 1} }
        u3 == UserRow(ONE_HOUR_IN_SECONDS, 1, T0 - (ACTIVE_WINDOW_MS + 1))
    IN  { [u \in UserIds |-> IF u = Me THEN me ELSE IF u = "u2" THEN u2 ELSE u3] :
             me \in Rows, u2 \in Rows }
        \cup { [u \in UserIds \ {Me} |-> IF u = "u2" THEN u2 ELSE u3] : u2 \in Rows }

InitDb ==
    /\ now = T0
    /\ events = 0
    /\ mounted = "closed"
    /\ checkpoint = << >>
    /\ pending = << >>
    /\ localStats = [totalSeconds |-> 0, sessionsCount |-> 0]
    /\ sessionIdRef = Null
    /\ sessionStartTimeRef = Null
    /\ lastHiddenAtRef = Null
    /\ visibility = "visible"
    /\ active = 0
    /\ totalUnique = 0
    /\ appPending = << >>
    /\ inflight = << >>
    /\ user = [totalSeconds |-> 0, sessionsCount |-> 0]
    /\ nextSid = 2
    /\ users \in InitialTables
    /\ backendUp = TRUE
    /\ reply = NoReply

\* Every request to the backend counts against the bound of this model.
EventDb ==
    /\ events < MaxEventsDb
    /\ Event

\* The component state, which the backend does not touch.
pageVars ==
    <<mounted, checkpoint, pending, localStats, sessionIdRef, sessionStartTimeRef,
      lastHiddenAtRef, visibility, active, totalUnique, appPending, inflight, user,
      nextSid, backendUp>>

\* Date.now() and the server clock move forward.
AdvanceClockDb(d) ==
    /\ EventDb
    /\ now' = now + d
    /\ UNCHANGED <<users, reply, pageVars>>

\* Users with more seconds than secs, counted with >= in place of >.
HigherUsersOrEqual(tbl, secs) == {v \in DOMAIN tbl : tbl[v].totalSeconds >= secs}

\* where('totalSeconds', '>', userTotalSeconds) / WHERE total_seconds > u.total_seconds
HigherUsers(tbl, secs) == {v \in DOMAIN tbl : tbl[v].totalSeconds > secs}

\* getUserRank(userId, userTotalSeconds).  Local mode takes the rank from the
\* leaderboard reply, 1 if it has none or the request fails; otherwise the
\* users with more than userTotalSeconds are counted.
getUserRank(tbl, userId, userTotalSeconds, isLocalDev, ok) ==
    IF isLocalDev
    THEN IF ok /\ userId \in DOMAIN tbl
         THEN Cardinality(HigherUsers(tbl, tbl[userId].totalSeconds)) + 1
         ELSE 1
    ELSE Cardinality(HigherUsers(tbl, userTotalSeconds)) + 1

\* A caller asks for the rank of user u, passing the total it read for u.
GetUserRank(u, isLocalDev, ok) ==
    /\ EventDb
    /\ u \in DOMAIN users
    /\ isLocalDev \/ ok
    /\ reply' = [NoReply EXCEPT !.op = "getUserRank",
                    !.rank = getUserRank(users, u, users[u].totalSeconds, isLocalDev, ok)]
    /\ UNCHANGED <<now, users, pageVars>>

\* UPDATE users SET last_seen / updateDoc(userRef, {lastSeen}) at time t.
TouchLastSeen(tbl, u, t) ==
    IF u \in DOMAIN tbl THEN [tbl EXCEPT ![u].lastSeen = t] ELSE tbl

\* The users that the query of recordHeartbeat counts as active at time t:
\* the local server compares with >=, the Firestore query with >.
ActiveUsers(tbl, t, isLocalDev) ==
    IF isLocalDev
    THEN {v \in DOMAIN tbl : tbl[v].lastSeen >= t - ACTIVE_WINDOW_MS}
    ELSE {v \in DOMAIN tbl : tbl[v].lastSeen > t - ACTIVE_WINDOW_MS}

\* recordHeartbeat(userId): last-seen is updated, then the counts are read.
\* Without ok the count query of the Firestore branch fails and 1 / 1 is
\* returned.
RecordHeartbeat(u, isLocalDev, ok) ==
    /\ EventDb
    /\ isLocalDev \/ u \in DOMAIN users
    /\ isLocalDev => ok
    /\ users' = TouchLastSeen(users, u, now)
    /\ reply' = IF ok
                THEN [NoReply EXCEPT !.op = "recordHeartbeat",
                         !.activeCount = Cardinality(ActiveUsers(users', now, isLocalDev)),
                         !.totalCount = Cardinality(DOMAIN users')]
                ELSE [NoReply EXCEPT !.op = "recordHeartbeat",
                         !.activeCount = 1, !.totalCount = 1]
    /\ UNCHANGED <<now, pageVars>>

\* An initialisation that writes a fresh row in every case.
initializeUserReset(tbl, userId, t) ==
    [u \in DOMAIN tbl \cup {userId} |-> IF u = userId THEN UserRow(0, 0, t) ELSE tbl[u]]

\* initializeUser(userId, displayName) at time t: the row is created with no
\* time and no sessions if there is none, and left as it is otherwise.
initializeUser(tbl, userId, t) ==
    IF userId \in DOMAIN tbl
    THEN tbl
    ELSE [u \in DOMAIN tbl \cup {userId} |-> IF u = userId THEN UserRow(0, 0, t) ELSE tbl[u]]

\* App.initUser: the user is initialised and its totals are returned.
InitializeUser(u) ==
    /\ EventDb
    /\ users' = initializeUser(users, u, now)
    /\ reply' = [NoReply EXCEPT !.op = "initializeUser",
                    !.totalSeconds = users'[u].totalSeconds,
                    !.sessionsCount = users'[u].sessionsCount]
    /\ UNCHANGED <<now, pageVars>>

\* updateUser(userId, updates) at time t.  The Firestore branch increments
\* the fields of an existing document; the local server has no route for the
\* request, which is rejected, as is an update of a missing document.
updateUser(tbl, userId, call, t, isLocalDev) ==
    IF isLocalDev \/ userId \notin DOMAIN tbl
    THEN tbl
    ELSE [tbl EXCEPT ![userId] =
             UserRow(@.totalSeconds + call.secs, @.sessionsCount + call.sessions,
                     IF call.lastSeen THEN t ELSE @.lastSeen)]

\* Start of a session that ends now: 10 s ago, or 5 s ahead after a clock
\* adjustment.
EndedSpansMs == {HEARTBEAT_MS, 0 - HEARTBEAT_MS \div 2}

\* A session of user u that started span ms ago is ended (explicitly, for its
\* time in the background, or as a confirmed orphan): the stats increment is
\* sent if the duration is positive.
UpdateUser(u, span, isLocalDev) ==
    /\ EventDb
    /\ LET durationSeconds == DurationSeconds(now, now - span) IN
       /\ durationSeconds > 0
       /\ users' = updateUser(users, u, UpdateUserCall(durationSeconds, 1, TRUE), now,
                              isLocalDev)
    /\ reply' = [NoReply EXCEPT !.op = "updateUser"]
    /\ UNCHANGED <<now, pageVars>>

NextDb ==
    \/ \E d \in {1, ACTIVE_WINDOW_MS} : AdvanceClockDb(d)
    \/ \E u \in UserIds : InitializeUser(u)
    \/ \E u \in UserIds, span \in EndedSpansMs, isLocalDev \in BOOLEAN :
          UpdateUser(u, span, isLocalDev)
    \/ \E u \in UserIds, isLocalDev \in BOOLEAN, ok \in BOOLEAN :
          GetUserRank(u, isLocalDev, ok)
    \/ \E u \in UserIds, isLocalDev \in BOOLEAN, ok \in BOOLEAN :
          RecordHeartbeat(u, isLocalDev, ok)

SpecDb == InitDb /\ [][NextDb]_vars

----------------------------------------------------------------------------
(* Properties of the users table (SpecDb) *)

\* C16: getUserRank returns, for every table of users, 1 + the number of
\* users whose totalSeconds is strictly greater than the user's.  The top user
\* has rank 1, users tied on totalSeconds get the same rank, and a user with
\* 0 seconds ranks below every user with positive time.
C16_RankCountsStrictlyGreater ==
    [][\A u \in UserIds, isLocalDev \in BOOLEAN :
          GetUserRank(u, isLocalDev, TRUE) =>
              LET secs(v) == users[v].totalSeconds
                  rank(v) == getUserRank(users, v, secs(v), isLocalDev, TRUE)
              IN  /\ reply'.rank = rank(u)
                  /\ reply'.rank =
                         1 + Cardinality({v \in DOMAIN users : secs(v) > secs(u)})
                  /\ (\A v \in DOMAIN users : secs(v) <= secs(u)) => reply'.rank = 1
                  /\ \A v \in DOMAIN users : secs(v) = secs(u) => rank(v) = reply'.rank
                  /\ secs(u) = 0 =>
                         \A v \in DOMAIN users : secs(v) > 0 => rank(v) < reply'.rank]_vars

\* C16 case: two users are tied at one hour below a user with two hours, and
\* the rank returned for one of the two is 2.
C16_Witness ==
    /\ reply.op = "getUserRank"
    /\ reply.rank = 2
    /\ Me \in DOMAIN users
    /\ users[Me].totalSeconds = 3600
    /\ users["u3"].totalSeconds = 3600
    /\ users["u2"].totalSeconds = 7200

\* C17: the active count returned by a heartbeat is the number of users whose
\* lastSeen lies within the last 30 seconds, the boundary included (a user
\* last seen exactly 30 s ago is counted, one seen longer ago is not), so the
\* user sending the heartbeat is always counted.
C17_ActiveCountIncludesBoundary ==
    [][\A u \in UserIds, isLocalDev \in BOOLEAN :
          RecordHeartbeat(u, isLocalDev, TRUE) =>
              /\ reply'.activeCount =
                     Cardinality({v \in DOMAIN users' : now - users'[v].lastSeen <= 30000})
              /\ u \in DOMAIN users => reply'.activeCount >= 1]_vars

\* C18: across any sequence of initialisations, heartbeats and stats
\* increments of ended sessions, no user's totalSeconds or sessionsCount ever
\* decreases and no row disappears: every increment sent adds a duration >= 0
\* and a session count >= 0, and initialising an existing user leaves its
\* totals as they are.
C18_TotalsNeverDecrease ==
    [][/\ \A u \in DOMAIN users :
              /\ u \in DOMAIN users'
              /\ users'[u].totalSeconds >= users[u].totalSeconds
              /\ users'[u].sessionsCount >= users[u].sessionsCount
       /\ \A u \in DOMAIN users :
              InitializeUser(u) =>
                  /\ users' = users
                  /\ reply'.totalSeconds = users[u].totalSeconds
                  /\ reply'.sessionsCount = users[u].sessionsCount
       /\ \A u \in UserIds, span \in EndedSpansMs, isLocalDev \in BOOLEAN :
              UpdateUser(u, span, isLocalDev) =>
                  \A v \in DOMAIN users :
                      /\ users'[v].totalSeconds - users[v].totalSeconds
                             \in {0, Max(0, span \div 1000)}
                      /\ users'[v].sessionsCount - users[v].sessionsCount \in {0, 1}]_vars

\* C18 case: a user with an hour on record was credited 10 more seconds and
\* was then initialised again, which returned the totals unchanged.
C18_Witness ==
    /\ reply.op = "initializeUser"
    /\ Me \in DOMAIN users
    /\ users[Me].totalSeconds = 3610
    /\ users[Me].sessionsCount = 2
    /\ reply.totalSeconds = 3610
    /\ reply.sessionsCount = 2

----------------------------------------------------------------------------
(* The heartbeat of components/GlobalCounter.tsx under fair scheduling (SpecLive) *)

\* The backend becomes unreachable.
BackendDown ==
    /\ backendUp
    /\ backendUp' = FALSE
    /\ UNCHANGED <<now, events, mounted, checkpoint, pending, localStats,
                   sessionIdRef, sessionStartTimeRef, lastHiddenAtRef, visibility,
                   active, totalUnique, appPending, inflight, user, nextSid, users,
                   reply>>

\* The backend is reachable again.
BackendUp ==
    /\ ~backendUp
    /\ backendUp' = TRUE
    /\ UNCHANGED <<now, events, mounted, checkpoint, pending, localStats,
                   sessionIdRef, sessionStartTimeRef, lastHiddenAtRef, visibility,
                   active, totalUnique, appPending, inflight, user, nextSid, users,
                   reply>>

\* An interval that fires only until the first tick has settled.
TickLiveUntilSettled ==
    /\ mounted = "running"
    /\ active = 0
    /\ BeginFetchStats
    /\ UNCHANGED <<now, events, mounted, checkpoint, pending, localStats,
                   sessionIdRef, sessionStartTimeRef, lastHiddenAtRef, visibility,
                   active, totalUnique, appPending, user, nextSid>>
    /\ UNCHANGED backendVars

\* setInterval(() => fetchStats(), 10000) fires, as often as time goes on.
TickLive ==
    /\ mounted = "running"
    /\ BeginFetchStats
    /\ UNCHANGED <<now, events, mounted, checkpoint, pending, localStats,
                   sessionIdRef, sessionStartTimeRef, lastHiddenAtRef, visibility,
                   active, totalUnique, appPending, user, nextSid>>
    /\ UNCHANGED backendVars

\* A request of a tick in flight settles: it succeeds if the backend is
\* reachable and fails if it is not.
FetchStatsSettles ==
    \E i \in DOMAIN inflight :
        \/ FetchStatsHeartbeatDone(i, backendUp, Saved)
        \/ FetchStatsStartDone(i, backendUp, Saved, SavedNew)
        \/ \E c \in CountsReplies : FetchStatsCountsDone(i, backendUp, c, Saved)

NextLive ==
    \/ handleExistingCheckpoint
    \/ InitialPing
    \/ TickLive
    \/ BackendDown
    \/ BackendUp
    \/ FetchStatsSettles

\* The page is loaded and left open: the effects run, the interval keeps
\* firing and every request settles.
SpecLive ==
    /\ Init
    /\ [][NextLive]_vars
    /\ WF_vars(handleExistingCheckpoint)
    /\ WF_vars(InitialPing)
    /\ WF_vars(TickLive)
    /\ WF_vars(FetchStatsSettles)

\* A failed tick has left the fallback on display.
FallbackShown == mounted = "running" /\ active = 1 /\ totalUnique = 1

\* A tick has succeeded: a session is held, its checkpoint is stored and the
\* counts on display are a reply of the backend.
TickSucceeded ==
    /\ mounted = "running"
    /\ sessionIdRef # Null
    /\ sessionStartTimeRef # Null
    /\ Stored # << >>
    /\ Stored[1].sessionId = sessionIdRef
    /\ <<active, totalUnique>> \in CountsReplies

\* C20: a failed tick never stops the heartbeat.  While the page runs the
\* timer can always fire again (unless the requests of earlier ticks are all
\* still outstanding), and if the backend eventually stays available then
\* after any failed tick eventually a tick succeeds: a session reference and
\* its checkpoint exist and the displayed counts are those of the backend.
C20_FailedTickIsRetried ==
    /\ [](mounted = "running" /\ Len(inflight) < MaxInflight => ENABLED TickLive)
    /\ (<>[]backendUp) => [](FallbackShown => <>TickSucceeded)

\* C20 case: a tick has failed with no session started, the backend is
\* reachable again and the next tick's first request is under way.
C20_Witness ==
    /\ FallbackShown
    /\ backendUp
    /\ sessionIdRef = Null
    /\ nextSid = 2
    /\ checkpoint = << >>
    /\ Len(inflight) = 1
    /\ inflight[1].pc = "heartbeat"

====
